---- MODULE Spec2Model ----
(***************************************************************************)
(* A model of matrix-github's GitHub side:                                 *)
(*   - UserNotificationWatcher (src/unnamed/part_000): the registry of     *)
(*     user streams, the user queue and the single polling loop            *)
(*     fetchUserNotifications, cut at its awaits;                          *)
(*   - GithubWebhooks (src/src/GithubWebhooks.ts): the signature check of  *)
(*     the JSON body parser and the payload handler onPayload.             *)
(* Spec, DataSpec, RegSpec, StartSpec, StopSpec and LiveSpec are the        *)
(* watcher under different callers; WebhookSpec is the webhook endpoint.   *)
(***************************************************************************)
EXTENDS Integers, Sequences, FiniteSets, TLC

(* ------------------------------ bounds --------------------------------- *)

\* Users that bus messages may name, and the rooms they may ask for.
Users == {"u1", "u2"}
Rooms == {"r1", "r2"}
\* The tokens a user may register with.
Tokens == {"t1", "t2"}

\* Spec, the watcher's scheduling: addUser / removeUser calls and clock ticks
\* in one behaviour.
MaxCalls == 4
MaxTicks == 3
\* DataSpec, the watcher's data: calls, ticks, and the notifications in one
\* response of the notification feed.
DataCalls == 1
DataTicks == 1
MaxNotifs == 2
\* RegSpec, the watcher's registrations: calls and ticks.
RegCalls == 3
RegTicks == 1
\* StartSpec, the watcher's starts: start() calls and ticks.
MaxStarts == 2
StartTicks == 1
\* StopSpec, the shutdown: addUser calls and ticks.
StopCalls == 2
StopTicks == 1
\* LiveSpec, the watcher's progress: calls and ticks.
LiveCalls == 4
LiveTicks == 1

(* --------------------------- program constants -------------------------- *)

MIN_INTERVAL_MS == 45000
\* setTimeout(res, 5000) of the empty-queue branch.
EMPTY_QUEUE_WAIT_MS == 5000

\* The clock moves in steps of a third of the minimum interval.
TickMs == MIN_INTERVAL_MS \div 3
\* Date.now() at construction: late enough that a lastReadTs of 0 lies a
\* full interval back, as it does for every real clock.
StartNow == MIN_INTERVAL_MS
EndNow(ticks) == StartNow + ticks * TickMs

NoUser == "undefined"
NoStream == [octoKit |-> "undefined", roomId |-> "undefined", lastReadTs |-> 0]

VARIABLES
    \* UserNotificationWatcher
    userStreams,   \* Map<string, UserStream>: a function on the registered users
    userQueue,     \* string[]
    shouldListen,
    \* fetchUserNotifications: where it is suspended, and its locals
    pc,            \* "idle" (not started), "empty" (5 s timer), "interval" (rate
                   \* limit timer), "notifications", "url", "latest_comment_url"
                   \* (request in flight), "stopped"
    userId,
    stream,        \* the UserStream object the iteration holds (octoKit: the
                   \* token its client authenticates with)
    live,          \* is `stream` still the object userStreams maps userId to?
    timer,         \* when the pending setTimeout fires
    response,      \* response.data, its rawEvents mutated in place
    idx,           \* position of rawEvent in response.data
    events,
    others,        \* the other calls of fetchUserNotifications that are suspended
                   \* at an await, each with its position and locals
    \* environment
    now,           \* Date.now()
    \* observation
    ev,            \* what the last step did: its operation, inputs and outputs
    calls,         \* addUser / removeUser calls so far
    fetchedAt,     \* Date.now() when the iteration's notification request resolved
    returned,      \* response.data as the notification request returned it
    threw,         \* the <<id, request>> of the iteration's requests that threw
    arrivals,      \* users in the order of their first addUser
    noRemovals,    \* no removeUser call so far
    firstPolls,    \* users in the order of their first notification request
    pollLog,       \* users dequeued for polling since the last addUser / removeUser
    \* GithubWebhooks
    secret,        \* config.github.webhook.secret
    req,           \* the webhook request being served
    closed         \* stop() was called: the bus is stopped, the server closed

vars == <<userStreams, userQueue, shouldListen, pc, userId, stream, live, timer,
          response, idx, events, others, now, ev, calls, fetchedAt, returned, threw,
          arrivals, noRemovals, firstPolls, pollLog, secret, req, closed>>

watcherVars == <<userStreams, userQueue, shouldListen, pc, userId, stream, live,
                 timer, response, idx, events, others, now, ev, calls, fetchedAt, returned,
                 threw, arrivals, noRemovals, firstPolls, pollLog>>

webhookVars == <<secret, req, closed>>

Range(s) == {s[i] : i \in 1..Len(s)}

(* ------------------------- UserNotificationWatcher ---------------------- *)

\* Array.prototype.pop: the last element, and the array without it.
Pop(q) == [userId |-> q[Len(q)], rest |-> SubSeq(q, 1, Len(q) - 1)]

\* Faulty variant of Unshift: the requeue pushes, so the polled user is the
\* next to be popped again.
Unshift_atEnd(q, u) == Append(q, u)

\* Faulty variant of Unshift: the polled user is not put back.
Unshift_lost(q, u) == q

\* Array.prototype.unshift of the requeue.
Unshift(q, u) == <<u>> \o q

\* Array.prototype.push of addUser.
Push(q, u) == Append(q, u)

\* MIN_INTERVAL_MS - (Date.now() - stream.lastReadTs)
Interval(t, s) == MIN_INTERVAL_MS - (t - s.lastReadTs)

DecimalDigits == <<"0", "1", "2", "3", "4", "5", "6", "7", "8", "9">>

\* n in decimal, padded with zeros to w digits.
RECURSIVE Padded(_, _)
Padded(n, w) ==
    IF w = 0 THEN "" ELSE Padded(n \div 10, w - 1) \o DecimalDigits[(n % 10) + 1]

\* new Date(t).toISOString(), for a time of January 1970: the date, "T", the
\* time of day to the millisecond, "Z".
toISOString(t) ==
    "1970-01-" \o Padded(1 + t \div 86400000, 2)
       \o "T" \o Padded((t \div 3600000) % 24, 2)
       \o ":" \o Padded((t \div 60000) % 60, 2)
       \o ":" \o Padded((t \div 1000) % 60, 2)
       \o "." \o Padded(t % 1000, 3) \o "Z"

\* Faulty variant of SinceParam: the parameter is sent for lastReadTs 0 too.
SinceParam_always(s) == <<toISOString(s.lastReadTs)>>

\* The since parameter of the notification request: absent for lastReadTs 0.
SinceParam(s) == IF s.lastReadTs # 0 THEN <<toISOString(s.lastReadTs)>> ELSE <<>>

NotificationsRequest(u, s) ==
    [kind |-> "notifications", user |-> u, auth |-> s.octoKit,
     since |-> SinceParam(s), id |-> 0]

EnrichRequest(k, u, s, raw) ==
    [kind |-> k, user |-> u, auth |-> s.octoKit, since |-> <<>>, id |-> raw.id]

\* The message of queue.push, built from the stream the iteration holds.
UserEventsMessage(s, evs) ==
    [eventName |-> "notifications.user.events",
     sender |-> "GithubWebhooks",
     data |-> [roomId |-> s.roomId, events |-> evs, lastReadTs |-> s.lastReadTs]]

\* Faulty variant of Publish: an empty batch is not pushed.
Publish_nonEmpty(s, evs) ==
    IF evs = <<>> THEN <<>> ELSE <<UserEventsMessage(s, evs)>>

\* The messages pushed once the for loop is through: one, whatever events holds.
Publish(s, evs) == <<UserEventsMessage(s, evs)>>

\* The label of a step that is no step of the loop.
Label(op, u) ==
    [op |-> op, user |-> u, data |-> <<>>, existing |-> FALSE,
     dropped |-> <<>>, request |-> <<>>, push |-> <<>>,
     pushThrew |-> FALSE, requeued |-> <<>>, outcome |-> "none",
     returned |-> <<>>, threw |-> {}]

\* Faulty variant of NextUser: a user without a stream is skipped but stays on
\* the queue.
RECURSIVE NextUser_requeue(_, _, _)
NextUser_requeue(q, streams, dropped) ==
    IF q = <<>>
    THEN [userId |-> NoUser, rest |-> q, dropped |-> dropped]
    ELSE LET u == q[Len(q)]
             rest == SubSeq(q, 1, Len(q) - 1)
         IN  IF u \in DOMAIN streams
             THEN [userId |-> u, rest |-> rest, dropped |-> dropped]
             ELSE LET r == NextUser_requeue(rest, streams, Append(dropped, u))
                  IN  [r EXCEPT !.rest = <<u>> \o @]

\* Pops until a user with a stream comes up or the queue is empty; the users
\* without a stream are dropped on the way.
RECURSIVE NextUser(_, _, _)
NextUser(q, streams, dropped) ==
    IF q = <<>>
    THEN [userId |-> NoUser, rest |-> q, dropped |-> dropped]
    ELSE LET p == Pop(q) IN
         IF p.userId \in DOMAIN streams
         THEN [userId |-> p.userId, rest |-> p.rest, dropped |-> dropped]
         ELSE NextUser(p.rest, streams, Append(dropped, p.userId))

LogPoll(log, u) ==
    LET l == Append(log, u) IN
    IF Len(l) > Cardinality(Users) THEN Tail(l) ELSE l

NoteFirstPoll(fp, u) == IF u \in Range(fp) THEN fp ELSE Append(fp, u)

\* events.push(rawEvent)
PushEvent(evs, raw) == Append(evs, raw)

\* The body of the for loop from rawEvent i on, up to the next request: `stage`
\* is the part of the rawEvent's closure that is still to run. Ends at a request
\* (pc "url" or "latest_comment_url") or after the last rawEvent ("publish").
RECURSIVE Advance(_, _, _, _)
Advance(data, i, evs, stage) ==
    IF i > Len(data)
    THEN [pc |-> "publish", idx |-> i, events |-> evs]
    ELSE IF stage = "url" /\ data[i].url
    THEN [pc |-> "url", idx |-> i, events |-> evs]
    ELSE IF data[i].latest_comment_url
    THEN [pc |-> "latest_comment_url", idx |-> i, events |-> evs]
    ELSE Advance(data, i + 1, PushEvent(evs, data[i]), "url")

\* rawEvent.subject.url_data = res.data
SetUrlData(data, i) == [data EXCEPT ![i].url_data = "data"]

\* rawEvent.subject.latest_comment_url_data = res.data
SetCommentData(data, i) == [data EXCEPT ![i].latest_comment_url_data = "data"]

\* fetchUserNotifications from the while test to its next await, on the queue q
\* and the registry `streams`: drops the users without a stream, then waits on
\* the empty queue, waits out the interval, or sends the notification request.
Run(q, streams, listen, lbl) ==
    LET d == NextUser(q, streams, <<>>)
        s == streams[d.userId]
        iv == Interval(now, s)
    IN  /\ response' = <<>>
        /\ idx' = 0
        /\ events' = <<>>
        /\ fetchedAt' = 0
        /\ returned' = <<>>
        /\ threw' = {}
        /\ IF ~listen
           THEN /\ pc' = "stopped"
                /\ userQueue' = q
                /\ userId' = NoUser
                /\ stream' = NoStream
                /\ live' = FALSE
                /\ timer' = 0
                /\ ev' = lbl
                /\ UNCHANGED <<firstPolls, pollLog>>
           ELSE IF d.userId = NoUser
           THEN /\ pc' = "empty"
                /\ timer' = now + EMPTY_QUEUE_WAIT_MS
                /\ userQueue' = d.rest
                /\ userId' = NoUser
                /\ stream' = NoStream
                /\ live' = FALSE
                /\ ev' = [lbl EXCEPT !.dropped = d.dropped]
                /\ UNCHANGED <<firstPolls, pollLog>>
           ELSE /\ userQueue' = d.rest
                /\ userId' = d.userId
                /\ stream' = s
                /\ live' = TRUE
                /\ pollLog' = LogPoll(pollLog, d.userId)
                /\ IF iv > 0
                   THEN /\ pc' = "interval"
                        /\ timer' = now + iv
                        /\ ev' = [lbl EXCEPT !.dropped = d.dropped]
                        /\ UNCHANGED firstPolls
                   ELSE /\ pc' = "notifications"
                        /\ timer' = 0
                        /\ ev' = [lbl EXCEPT !.dropped = d.dropped,
                                             !.request = <<NotificationsRequest(d.userId, s)>>]
                        /\ firstPolls' = NoteFirstPoll(firstPolls, d.userId)

\* The for loop resumed at rawEvent i; after the last rawEvent the batch is
\* pushed (the push may throw into the outer catch), the user is requeued and
\* the loop runs on. pushThrows says whether the push of this step throws: a
\* step without a push has none that throws.
Continue(data, i, evs, stage, s, h, streams, lbl, pushThrows) ==
    LET a == Advance(data, i, evs, stage) IN
    IF a.pc = "publish"
    THEN Run(Unshift(userQueue, userId), streams, shouldListen,
             [lbl EXCEPT !.push = Publish(s, a.events),
                         !.pushThrew = pushThrows,
                         !.requeued = <<userId>>,
                         !.returned = h.returned,
                         !.threw = h.threw])
    ELSE /\ ~pushThrows
         /\ pc' = a.pc
         /\ idx' = a.idx
         /\ events' = a.events
         /\ response' = data
         /\ stream' = s
         /\ fetchedAt' = h.fetchedAt
         /\ returned' = h.returned
         /\ threw' = h.threw
         /\ timer' = 0
         /\ ev' = [lbl EXCEPT !.request = <<EnrichRequest(a.pc, userId, s, data[a.idx])>>]
         /\ UNCHANGED <<userQueue, userId, live, firstPolls, pollLog>>

\* What the iteration has recorded so far.
History == [fetchedAt |-> fetchedAt, returned |-> returned, threw |-> threw]

InIteration == pc \in {"interval", "notifications", "url", "latest_comment_url"}

(* --- the operations --- *)

\* The position and locals of the call of fetchUserNotifications that the
\* variables pc, userId, ... describe.
Frame ==
    [pc |-> pc, userId |-> userId, stream |-> stream, live |-> live, timer |-> timer,
     response |-> response, idx |-> idx, events |-> events, fetchedAt |-> fetchedAt,
     returned |-> returned, threw |-> threw]

\* The suspended calls after start() has called fetchUserNotifications once
\* more: a call that was made before stays suspended where it is.
Spawn(frames, f) == IF f.pc = "idle" THEN frames ELSE Append(frames, f)

\* start(), called by listen(): sets the flag and calls fetchUserNotifications,
\* which runs to its first await.
start ==
    /\ shouldListen' = TRUE
    /\ others' = Spawn(others, Frame)
    /\ Run(userQueue, userStreams, TRUE, Label("start", NoUser))
    /\ UNCHANGED <<userStreams, now, calls, arrivals, noRemovals>>
    /\ UNCHANGED webhookVars

\* The event loop turns to the i-th of the other suspended calls: from here on
\* pc, userId, ... are its position and locals.
Resume(i) ==
    LET f == others[i] IN
    /\ others' = [others EXCEPT ![i] = Frame]
    /\ pc' = f.pc
    /\ userId' = f.userId
    /\ stream' = f.stream
    /\ live' = f.live
    /\ timer' = f.timer
    /\ response' = f.response
    /\ idx' = f.idx
    /\ events' = f.events
    /\ fetchedAt' = f.fetchedAt
    /\ returned' = f.returned
    /\ threw' = f.threw
    /\ ev' = Label("resume", NoUser)
    /\ UNCHANGED <<userStreams, userQueue, shouldListen, now, calls, arrivals,
                   noRemovals, firstPolls, pollLog>>
    /\ UNCHANGED webhookVars

\* The suspended calls after the registry entry of u was replaced or deleted:
\* a call that holds u's old stream object holds an object the registry no
\* longer has.
Detach(frames, u) ==
    [i \in 1..Len(frames) |-> [frames[i] EXCEPT !.live = @ /\ frames[i].userId # u]]

\* The suspended calls after stream.lastReadTs was set on the registered
\* object s of user u: a call that holds the same object sees the write.
Alias(frames, u, s) ==
    [i \in 1..Len(frames) |->
        IF frames[i].live /\ frames[i].userId = u
        THEN [frames[i] EXCEPT !.stream = s] ELSE frames[i]]

\* The registry after this.userStreams.set(data.user_id, {...}).
SetStream(streams, u, room, since, token) ==
    [x \in DOMAIN streams \cup {u} |->
        IF x = u THEN [octoKit |-> token, roomId |-> room, lastReadTs |-> since]
        ELSE streams[x]]

\* Faulty variant of Enqueue: a user that is registered again is queued again.
Enqueue_always(q, u, existing) == Push(q, u)

\* The queue after addUser: the user is pushed unless it had a stream.
Enqueue(q, u, existing) == IF ~existing THEN Push(q, u) ELSE q

\* addUser(data), data a NotificationsEnableEvent.
addUser(u, room, since, token) ==
    LET existing == u \in DOMAIN userStreams IN
    /\ calls' = calls + 1
    /\ userStreams' = SetStream(userStreams, u, room, since, token)
    /\ userQueue' = Enqueue(userQueue, u, existing)
    /\ live' = (live /\ u # userId)
    /\ others' = Detach(others, u)
    /\ arrivals' = NoteFirstPoll(arrivals, u)
    /\ pollLog' = <<>>
    /\ ev' = [Label("addUser", u) EXCEPT
                 !.data = <<[user_id |-> u, room_id |-> room, since |-> since,
                             token |-> token]>>,
                 !.existing = existing]
    /\ UNCHANGED <<shouldListen, pc, userId, stream, timer, response, idx, events,
                   now, fetchedAt, returned, threw, noRemovals, firstPolls>>
    /\ UNCHANGED webhookVars

\* The registry after this.userStreams.delete(userId).
DeleteStream(streams, u) == [x \in DOMAIN streams \ {u} |-> streams[x]]

\* The queue after removeUser: it is not touched.
QueueAfterRemove(q, u) == q

removeUser(u) ==
    /\ calls' = calls + 1
    /\ userStreams' = DeleteStream(userStreams, u)
    /\ userQueue' = QueueAfterRemove(userQueue, u)
    /\ live' = (live /\ u # userId)
    /\ others' = Detach(others, u)
    /\ noRemovals' = FALSE
    /\ pollLog' = <<>>
    /\ ev' = Label("removeUser", u)
    /\ UNCHANGED <<shouldListen, pc, userId, stream, timer, response, idx, events,
                   now, fetchedAt, returned, threw, arrivals, firstPolls>>
    /\ UNCHANGED webhookVars

\* The clock moves on.
Tick ==
    /\ now' = now + TickMs
    /\ ev' = Label("tick", NoUser)
    /\ UNCHANGED <<userStreams, userQueue, shouldListen, pc, userId, stream, live,
                   timer, response, idx, events, others, calls, fetchedAt, returned,
                   threw, arrivals, noRemovals, firstPolls, pollLog>>
    /\ UNCHANGED webhookVars

\* The 5 s timer of the empty queue fires: continue.
EmptyWaitDone ==
    /\ pc = "empty"
    /\ now >= timer
    /\ Run(userQueue, userStreams, shouldListen, Label("empty", NoUser))
    /\ UNCHANGED <<userStreams, shouldListen, others, now, calls, arrivals, noRemovals>>
    /\ UNCHANGED webhookVars

\* The rate-limit timer fires: the notification request is sent for the stream
\* the iteration holds.
IntervalWaitDone ==
    /\ pc = "interval"
    /\ now >= timer
    /\ pc' = "notifications"
    /\ timer' = 0
    /\ firstPolls' = NoteFirstPoll(firstPolls, userId)
    /\ ev' = [Label("interval", userId) EXCEPT
                 !.request = <<NotificationsRequest(userId, stream)>>]
    /\ UNCHANGED <<userStreams, userQueue, shouldListen, userId, stream, live,
                   response, idx, events, others, now, calls, fetchedAt, returned,
                   threw, arrivals, noRemovals, pollLog>>
    /\ UNCHANGED webhookVars

\* stream.lastReadTs = Date.now(), on the object the iteration holds.
Touch(s, t) == [s EXCEPT !.lastReadTs = t]

NotifAt(i, u, c) ==
    [id |-> i, url |-> u, latest_comment_url |-> c,
     url_data |-> "unset", latest_comment_url_data |-> "unset"]

\* The bodies the notification feed may answer with: up to n notifications,
\* each with or without a subject.url and a subject.latest_comment_url.
Responses(n) ==
    UNION { { [i \in 1..k |-> NotifAt(i, f[i][1], f[i][2])] :
                f \in [1..k -> BOOLEAN \X BOOLEAN] } : k \in 0..n }

\* The notification request resolves with `data`.
NotificationsOk(data, pushThrows) ==
    LET s == Touch(stream, now)
        streams == IF live THEN [userStreams EXCEPT ![userId] = s] ELSE userStreams
    IN  /\ pc = "notifications"
        /\ userStreams' = streams
        /\ others' = IF live THEN Alias(others, userId, s) ELSE others
        /\ Continue(data, 1, <<>>, "url", s,
                    [fetchedAt |-> now, returned |-> data, threw |-> {}], streams,
                    [Label("notifications", userId) EXCEPT !.outcome = "ok"],
                    pushThrows)
        /\ UNCHANGED <<shouldListen, now, calls, arrivals, noRemovals>>
        /\ UNCHANGED webhookVars

\* The notification request throws: the outer catch, then the requeue.
NotificationsThrew ==
    /\ pc = "notifications"
    /\ Run(Unshift(userQueue, userId), userStreams, shouldListen,
           [Label("notifications", userId) EXCEPT !.outcome = "threw",
                                                  !.requeued = <<userId>>])
    /\ UNCHANGED <<userStreams, shouldListen, others, now, calls, arrivals, noRemovals>>
    /\ UNCHANGED webhookVars

\* The subject.url request resolves.
UrlOk(pushThrows) ==
    /\ pc = "url"
    /\ Continue(SetUrlData(response, idx), idx, events, "latest_comment_url",
                stream, History, userStreams,
                [Label("url", userId) EXCEPT !.outcome = "ok"], pushThrows)
    /\ UNCHANGED <<userStreams, shouldListen, others, now, calls, arrivals, noRemovals>>
    /\ UNCHANGED webhookVars

\* Faulty variant of EnrichThrew: the inner catch logs and pushes nothing.
EnrichThrew_omit(pushThrows) ==
    /\ pc \in {"url", "latest_comment_url"}
    /\ Continue(response, idx + 1, events, "url",
                stream, [History EXCEPT !.threw = @ \cup {<<response[idx].id, pc>>}],
                userStreams,
                [Label(pc, userId) EXCEPT !.outcome = "threw"], pushThrows)
    /\ UNCHANGED <<userStreams, shouldListen, others, now, calls, arrivals, noRemovals>>
    /\ UNCHANGED webhookVars

\* A request of the rawEvent's closure throws: the inner catch pushes the
\* rawEvent as it is.
EnrichThrew(pushThrows) ==
    /\ pc \in {"url", "latest_comment_url"}
    /\ Continue(response, idx + 1, PushEvent(events, response[idx]), "url",
                stream, [History EXCEPT !.threw = @ \cup {<<response[idx].id, pc>>}],
                userStreams,
                [Label(pc, userId) EXCEPT !.outcome = "threw"], pushThrows)
    /\ UNCHANGED <<userStreams, shouldListen, others, now, calls, arrivals, noRemovals>>
    /\ UNCHANGED webhookVars

\* The subject.latest_comment_url request resolves.
CommentOk(pushThrows) ==
    LET data == SetCommentData(response, idx) IN
    /\ pc = "latest_comment_url"
    /\ Continue(data, idx + 1, PushEvent(events, data[idx]), "url",
                stream, History, userStreams,
                [Label("latest_comment_url", userId) EXCEPT !.outcome = "ok"],
                pushThrows)
    /\ UNCHANGED <<userStreams, shouldListen, others, now, calls, arrivals, noRemovals>>
    /\ UNCHANGED webhookVars

(* ------------------------------ GithubWebhooks -------------------------- *)

\* IWebhookEvent, as far as onPayload reads it: the action, and whether the
\* optional comment, issue and sender are there.
WebhookActions == {"created", "edited", "closed", "reopened", "labeled", "opened"}
Payloads == [action : WebhookActions, comment : BOOLEAN, issue : BOOLEAN, sender : BOOLEAN]
NoBody == [action |-> "undefined", comment |-> FALSE, issue |-> FALSE, sender |-> FALSE]

ActionCode(a) ==
    CASE a = "created" -> 0 [] a = "edited" -> 1 [] a = "closed" -> 2
      [] a = "reopened" -> 3 [] a = "labeled" -> 4 [] OTHER -> 5

Bit(b) == IF b THEN 1 ELSE 0

\* The raw bytes of a request body, as a number: 0 is a body that is no JSON,
\* every payload has bytes of its own.
Stringify(p) ==
    1 + ActionCode(p.action) + 6 * Bit(p.comment) + 12 * Bit(p.issue) + 24 * Bit(p.sender)
Bufs == {0} \cup {Stringify(p) : p \in Payloads}
IsJson(buf) == \E p \in Payloads : Stringify(p) = buf
JsonParse(buf) == CHOOSE p \in Payloads : Stringify(p) = buf

\* Secrets: the configured one is any of them, a sender may sign with any.
Keys == {1, 2}

\* createHmac("sha1", key).update(buf): a keyed digest of one byte, with the
\* collisions a digest has.
Hmac(key, buf) == (key * 31 + buf * 7) % 256

HexDigits == <<"0", "1", "2", "3", "4", "5", "6", "7",
               "8", "9", "a", "b", "c", "d", "e", "f">>
\* digest("hex")
Hex(d) == HexDigits[(d \div 16) + 1] \o HexDigits[(d % 16) + 1]

\* getSignature(buf), under the secret k.
getSignature(k, buf) == "sha1=" \o Hex(Hmac(k, buf))

\* A header of the request: <<>> when it is not sent, <<value>> when it is.
\* The x-hub-signature headers a sender may send with buf: none, the signature
\* of buf or of other bytes under any key, or the bare digest.
SignatureHeaders(buf) ==
    {<<>>}
      \cup {<<getSignature(k, b)>> : k \in Keys, b \in {buf, (buf + 1) % Cardinality(Bufs)}}
      \cup {<<Hex(Hmac(k, buf))>> : k \in Keys}

\* Faulty variant of verifyRequest: the bare digest passes as well.
verifyRequest_digestOnly(k, header, buf) ==
    header \in {<<getSignature(k, buf)>>, <<Hex(Hmac(k, buf))>>}

\* verifyRequest: TRUE when it returns true, FALSE when it answers 403 and throws.
verifyRequest(k, header, buf) == ~(header # <<getSignature(k, buf)>>)

\* Faulty variant of classify: the issue branches come before the comment ones.
classify_issueFirst(body) ==
    IF body.action = "edited" /\ body.issue THEN "issue.edited"
    ELSE IF body.action = "closed" /\ body.issue THEN "issue.closed"
    ELSE IF body.action = "reopened" /\ body.issue THEN "issue.reopened"
    ELSE IF body.action = "created" /\ body.comment THEN "comment.created"
    ELSE IF body.action = "edited" /\ body.comment THEN "comment.edited"
    ELSE "undefined"

\* The if / else-if chain of onPayload: the eventName, "undefined" when no
\* branch is taken.
classify(body) ==
    IF body.action = "created" /\ body.comment THEN "comment.created"
    ELSE IF body.action = "edited" /\ body.comment THEN "comment.edited"
    ELSE IF body.action = "edited" /\ body.issue THEN "issue.edited"
    ELSE IF body.action = "closed" /\ body.issue THEN "issue.closed"
    ELSE IF body.action = "reopened" /\ body.issue THEN "issue.reopened"
    ELSE "undefined"

\* The messages onPayload pushes for eventName.
PayloadPushes(eventName, body) ==
    IF eventName # "undefined"
    THEN <<[eventName |-> eventName, sender |-> "GithubWebhooks", data |-> body]>>
    ELSE <<>>

\* Faulty variant of Respond: the push is not in a try block, and a throw
\* reaches the framework's error handler.
Respond_uncaught(status, pushThrew) ==
    IF pushThrew THEN Append(status, 500) ELSE Append(status, 200)

\* The responses sent once the try block of onPayload is left: a throwing push
\* is caught, and res.sendStatus(200) follows either way.
Respond(status, pushThrew) == Append(status, 200)

NoRequest ==
    [phase |-> "none", buf |-> 0, header |-> <<>>, body |-> NoBody, status |-> <<>>,
     handled |-> FALSE, pushed |-> <<>>, pushThrew |-> FALSE]

\* A POST / with a JSON content type arrives.
Request(buf, header) ==
    /\ req.phase \in {"none", "rejected", "failed", "done"}
    /\ req' = [NoRequest EXCEPT !.phase = "received", !.buf = buf, !.header = header]
    /\ UNCHANGED <<secret, closed>>
    /\ UNCHANGED watcherVars

\* express.json({verify}): verifyRequest on the raw bytes, then JSON.parse. A
\* failed verification has answered 403 and its throw ends the request; bytes
\* that do not parse end it with the parser's 400.
JsonBody ==
    /\ req.phase = "received"
    /\ req' = IF ~verifyRequest(secret, req.header, req.buf)
              THEN [req EXCEPT !.phase = "rejected", !.status = Append(@, 403)]
              ELSE IF ~IsJson(req.buf)
              THEN [req EXCEPT !.phase = "failed", !.status = Append(@, 400)]
              ELSE [req EXCEPT !.phase = "routed", !.body = JsonParse(req.buf)]
    /\ UNCHANGED <<secret, closed>>
    /\ UNCHANGED watcherVars

\* onPayload; the push of the message may throw.
onPayload(pushThrows) ==
    LET pushes == PayloadPushes(classify(req.body), req.body)
        failed == pushThrows /\ pushes # <<>>
    IN  /\ req.phase = "routed"
        /\ req' = [req EXCEPT !.phase = "done",
                              !.handled = TRUE,
                              !.pushed = pushes,
                              !.pushThrew = failed,
                              !.status = Respond(@, failed)]
        /\ UNCHANGED <<secret, closed>>
        /\ UNCHANGED watcherVars

\* The watcher's flag after GithubWebhooks.stop(): stop() stops the bus and
\* closes the server, and calls nothing on the watcher.
FlagAfterStop(listen) == listen

\* stop()
stop ==
    /\ closed' = TRUE
    /\ shouldListen' = FlagAfterStop(shouldListen)
    /\ ev' = Label("stop", NoUser)
    /\ UNCHANGED <<userStreams, userQueue, pc, userId, stream, live, timer, response,
                   idx, events, others, now, calls, fetchedAt, returned, threw,
                   arrivals, noRemovals, firstPolls, pollLog>>
    /\ UNCHANGED <<secret, req>>

WatcherInit ==
    /\ userStreams = [u \in {} |-> NoStream]
    /\ userQueue = <<>>
    /\ shouldListen = FALSE
    /\ pc = "idle"
    /\ userId = NoUser
    /\ stream = NoStream
    /\ live = FALSE
    /\ timer = 0
    /\ response = <<>>
    /\ idx = 0
    /\ events = <<>>
    /\ others = <<>>
    /\ now = StartNow
    /\ ev = Label("constructor", NoUser)
    /\ calls = 0
    /\ fetchedAt = 0
    /\ returned = <<>>
    /\ threw = {}
    /\ arrivals = <<>>
    /\ noRemovals = TRUE
    /\ firstPolls = <<>>
    /\ pollLog = <<>>

Init ==
    /\ WatcherInit
    /\ secret = CHOOSE k \in Keys : \A l \in Keys : k <= l
    /\ req = NoRequest
    /\ closed = FALSE

\* The loop's steps, the same under every environment.
Loop(responses) ==
    \/ EmptyWaitDone
    \/ IntervalWaitDone
    \/ \E data \in responses, pushThrows \in BOOLEAN : NotificationsOk(data, pushThrows)
    \/ NotificationsThrew
    \/ \E pushThrows \in BOOLEAN : UrlOk(pushThrows)
    \/ \E pushThrows \in BOOLEAN : EnrichThrew(pushThrows)
    \/ \E pushThrows \in BOOLEAN : CommentOk(pushThrows)

\* Scheduling, listen() being called once: two users in one room, registered as never read (since 0) or as
\* read just now; the feed answers with no notification or with one that has
\* both urls.
Next ==
    \/ pc = "idle" /\ start
    \/ \E u \in Users, since \in {0, now} : calls < MaxCalls /\ addUser(u, "r1", since, "t1")
    \/ \E u \in Users : calls < MaxCalls /\ removeUser(u)
    \/ now < EndNow(MaxTicks) /\ Tick
    \/ Loop({<<>>, <<NotifAt(1, TRUE, TRUE)>>})

Spec == Init /\ [][Next]_vars

\* Data: one user, in either room, registered as never read or as read two
\* ticks and a millisecond ago, and every response of up to MaxNotifs
\* notifications.
DataNext ==
    \/ pc = "idle" /\ start
    \/ \E room \in Rooms, since \in {0, now - 2 * TickMs - 1} :
          calls < DataCalls /\ addUser("u1", room, since, "t1")
    \/ calls < DataCalls /\ removeUser("u1")
    \/ now < EndNow(DataTicks) /\ Tick
    \/ Loop(Responses(MaxNotifs))

DataSpec == Init /\ [][DataNext]_vars

\* Registration: both users, each registered in one room with one token as
\* never read, or in the other room with the other token as read two ticks
\* ago; the feed answers with one notification that has both urls.
RegNext ==
    \/ pc = "idle" /\ start
    \/ \E u \in Users :
       \E d \in {[room_id |-> "r1", since |-> 0, token |-> "t1"],
                 [room_id |-> "r2", since |-> now - 2 * TickMs, token |-> "t2"]} :
          calls < RegCalls /\ addUser(u, d.room_id, d.since, d.token)
    \/ \E u \in Users : calls < RegCalls /\ removeUser(u)
    \/ now < EndNow(RegTicks) /\ Tick
    \/ Loop({<<NotifAt(1, TRUE, TRUE)>>})

RegSpec == Init /\ [][RegNext]_vars

\* Starts: listen() is called up to MaxStarts times; each user is registered
\* once, as never read or as read two ticks ago, and none is removed.
StartNext ==
    \/ Len(Spawn(others, Frame)) < MaxStarts /\ start
    \/ \E i \in 1..Len(others) : Resume(i)
    \/ \E u \in Users \ DOMAIN userStreams, since \in {0, now - 2 * TickMs} :
          addUser(u, "r1", since, "t1")
    \/ now < EndNow(StartTicks) /\ Tick
    \/ Loop({<<NotifAt(1, TRUE, TRUE)>>})

StartSpec == Init /\ [][StartNext]_vars

\* Shutdown: listen() is called once and stop() once, at any point; the users
\* are registered as never read or as read two ticks ago.
StopNext ==
    \/ pc = "idle" /\ start
    \/ ~closed /\ stop
    \/ \E u \in Users, since \in {0, now - 2 * TickMs} :
          calls < StopCalls /\ addUser(u, "r1", since, "t1")
    \/ now < EndNow(StopTicks) /\ Tick
    \/ Loop({<<NotifAt(1, TRUE, TRUE)>>})

StopSpec == Init /\ [][StopNext]_vars

\* Progress: a finite number of addUser / removeUser calls, and a loop that is
\* not left suspended: a request that is in flight is answered and a timer
\* that is due fires (the event loop runs every continuation that is ready).
LiveNext ==
    \/ pc = "idle" /\ start
    \/ \E u \in Users, since \in {0, now - 2 * TickMs} :
          calls < LiveCalls /\ addUser(u, "r1", since, "t1")
    \/ \E u \in Users : calls < LiveCalls /\ removeUser(u)
    \/ now < EndNow(LiveTicks) /\ Tick
    \/ Loop({<<NotifAt(1, TRUE, TRUE)>>})

LiveSpec ==
    /\ Init
    /\ [][LiveNext]_vars
    /\ WF_vars(pc = "idle" /\ start)
    /\ WF_vars(Loop({<<NotifAt(1, TRUE, TRUE)>>}))

\* The webhook endpoint, under every secret: requests are served one at a time,
\* each to its end.
WebhookInit ==
    /\ WatcherInit
    /\ secret \in Keys
    /\ req = NoRequest
    /\ closed = FALSE

WebhookNext ==
    \/ \E buf \in Bufs : \E header \in SignatureHeaders(buf) : Request(buf, header)
    \/ JsonBody
    \/ \E pushThrows \in BOOLEAN : onPayload(pushThrows)

WebhookSpec == WebhookInit /\ [][WebhookNext]_vars

(* ------------------------------- the claims ----------------------------- *)

Pos(seq, x) == CHOOSE k \in 1..Len(seq) : seq[k] = x

\* The notification requests the last step sent.
Polls == {r \in Range(ev.request) : r.kind = "notifications"}

\* C1 — Rate limit: whenever a notification request for a user is sent, at
\* least MIN_INTERVAL_MS have passed since the lastReadTs of the stream the
\* registry holds for that user, under every interleaving of addUser,
\* removeUser and the loop.
C1_RateLimit ==
    \A r \in Polls :
        r.user \in DOMAIN userStreams
            => now - userStreams[r.user].lastReadTs >= MIN_INTERVAL_MS

\* C2 — FIFO insertion order: with no removals, users are first polled in the
\* order in which they were added (a new user is polled only after the users
\* already queued).
C2_FirstPollsInInsertionOrder ==
    noRemovals =>
        \A i, j \in 1..Len(firstPolls) :
            i < j => Pos(arrivals, firstPolls[i]) < Pos(arrivals, firstPolls[j])

\* C3 — No starvation: N users being registered, any N consecutive iterations
\* that dequeue a user for polling, with no addUser / removeUser call among
\* them, poll each of the N users.
C3_RevisitedWithinN ==
    LET n == Cardinality(DOMAIN userStreams) IN
    \A k \in 1..(Len(pollLog) - n + 1) :
        n >= 1 => {pollLog[m] : m \in k..(k + n - 1)} = DOMAIN userStreams

\* The last step was one of fetchUserNotifications.
LoopOps == {"start", "empty", "interval", "notifications", "url", "latest_comment_url"}

\* A request of the iteration is in flight.
InFlight == pc \in {"notifications", "url", "latest_comment_url"}

\* This step ends the iteration in progress: the request in flight is settled,
\* and the loop is not left waiting for a further request of the same response.
EndsIteration == InFlight /\ ev'.op = pc /\ pc' \notin {"url", "latest_comment_url"}

\* The queue the pops of this step start from: the old queue, with the polled
\* user put back when the step ends an iteration.
QueueBeforePops == IF EndsIteration THEN <<userId>> \o userQueue ELSE userQueue

\* The entries this step popped, in the order of the array.
Popped == SubSeq(QueueBeforePops, Len(userQueue') + 1, Len(QueueBeforePops))

\* This step took a user off the queue to poll it.
Dequeues == ev'.op \in LoopOps /\ ev'.op # "interval" /\ pc' \in {"interval", "notifications"}

\* C4 — Lazy removal: removeUser(u) deletes u's stream at once and leaves the
\* queue as it is; an entry that is dequeued while its user has no stream is
\* dropped: it is not put back on the queue, the loop does not take it up, and
\* no request is sent for it.
C4_LazyRemoval ==
    [][ /\ ev'.op = "removeUser" =>
              /\ ev'.user \notin DOMAIN userStreams'
              /\ userQueue' = userQueue
        /\ ev'.op \in LoopOps =>
              /\ Len(userQueue') <= Len(QueueBeforePops)
              /\ userQueue' = SubSeq(QueueBeforePops, 1, Len(userQueue'))
              /\ \A k \in 1..Len(Popped) :
                    Popped[k] \notin DOMAIN userStreams' =>
                        /\ ~(Dequeues /\ userId' = Popped[k])
                        /\ \A r \in Range(ev'.request) : r.user # Popped[k]
      ]_vars

\* C4, its case: the loop has just dropped a queue entry whose user was
\* removed, and gone on to poll a registered user.
C4_Witness ==
    /\ ev.dropped # <<>>
    /\ pc \in {"interval", "notifications"}
    /\ \A u \in Range(ev.dropped) : u \notin DOMAIN userStreams

\* C9 — Primary fetch failure: when the notification request throws, nothing
\* is pushed in that iteration, no stream's lastReadTs changes, no enrichment
\* request is sent, and the user is put back at the end of the rotation (index
\* 0 of the array, popped last); the user is put back in the same way when the
\* iteration ends after a request that resolved, a throwing push included.
C9_FetchFailureRequeues ==
    [][ /\ EndsIteration =>
              /\ ev'.requeued = <<userId>>
              /\ userQueue' =
                    SubSeq(<<userId>> \o userQueue, 1,
                           Len(userQueue) + 1 - Len(ev'.dropped)
                               - (IF Dequeues THEN 1 ELSE 0))
        /\ (pc = "notifications" /\ ev'.outcome = "threw") =>
              /\ EndsIteration
              /\ ev'.push = <<>>
              /\ userStreams' = userStreams
              /\ \A r \in Range(ev'.request) : r.kind = "notifications"
      ]_vars

\* C9, its case: the notification request threw while another user was
\* queued; the polled user is back on the queue, behind the others.
C9_Witness ==
    /\ ev.op = "notifications"
    /\ ev.outcome = "threw"
    /\ ev.requeued # <<>>
    /\ userQueue # <<>>
    /\ userQueue[1] = ev.requeued[1]
    /\ userId # ev.requeued[1]

\* The webhook request was answered with the signature header it should have
\* had: "sha1=" and the hex digest of its bytes under the secret.
SignatureMatched == req.header = <<"sha1=" \o Hex(Hmac(secret, req.buf))>>

C6_Classification ==
    req.phase = "done" =>
        LET b == req.body
            Pushed(name) ==
                req.pushed = <<[eventName |-> name, sender |-> "GithubWebhooks", data |-> b]>>
        IN  /\ (b.action = "created" /\ b.comment) => Pushed("comment.created")
            /\ (b.action = "edited" /\ b.comment) => Pushed("comment.edited")
            /\ (b.action = "edited" /\ ~b.comment /\ b.issue) => Pushed("issue.edited")
            /\ (b.action = "closed" /\ b.issue) => Pushed("issue.closed")
            /\ (b.action = "reopened" /\ b.issue) => Pushed("issue.reopened")
            /\ (b.action = "created" /\ ~b.comment) => req.pushed = <<>>
            /\ (b.action = "edited" /\ ~b.comment /\ ~b.issue) => req.pushed = <<>>
            /\ (b.action \in {"closed", "reopened"} /\ ~b.issue) => req.pushed = <<>>
            /\ b.action \notin {"created", "edited", "closed", "reopened"} => req.pushed = <<>>

\* C6, its case: an edited comment on an issue went out as comment.edited.
C6_Witness ==
    /\ req.phase = "done"
    /\ req.body.action = "edited"
    /\ req.body.comment
    /\ req.body.issue
    /\ Len(req.pushed) = 1
    /\ req.pushed[1].eventName = "comment.edited"

\* C7 — Every request that reached onPayload is answered 200, once, whether or
\* not it was classified and whether or not the push threw.
C7_AlwaysOk == req.handled => req.status = <<200>>

\* C7, its case: the push threw and the request was still answered 200.
C7_Witness == req.handled /\ req.pushThrew /\ req.status = <<200>>

\* rawEvent as the closure leaves it when each of its requests resolves.
Enriched(raw) ==
    [raw EXCEPT !.url_data = IF raw.url THEN "data" ELSE "unset",
                !.latest_comment_url_data =
                    IF raw.latest_comment_url THEN "data" ELSE "unset"]

\* C8 — Enrichment degradation: the batch that is pushed holds every
\* notification the request returned, once and in the returned order, whichever
\* enrichment requests threw; a notification whose subject.url request threw
\* is in it with url_data unset, and a notification none of whose requests
\* threw is in it fully enriched.
C8_EnrichmentDegradation ==
    \A m \in Range(ev.push) :
        LET evs == m.data.events
            ret == ev.returned
        IN  /\ Len(evs) = Len(ret)
            /\ \A k \in 1..Len(ret) :
                  /\ evs[k].id = ret[k].id
                  /\ evs[k].url = ret[k].url
                  /\ evs[k].latest_comment_url = ret[k].latest_comment_url
                  /\ <<ret[k].id, "url">> \in ev.threw => evs[k].url_data = "unset"
                  /\ (\A t \in ev.threw : t[1] # ret[k].id) => evs[k] = Enriched(ret[k])

\* C8, its case: a batch of two went out, the subject.url request of the first
\* having thrown, the second enriched with both resources.
C8_Witness ==
    /\ Len(ev.push) = 1
    /\ Len(ev.returned) = 2
    /\ <<ev.returned[1].id, "url">> \in ev.threw
    /\ ev.push[1].data.events[2].url_data = "data"
    /\ ev.push[1].data.events[2].latest_comment_url_data = "data"

\* This step settles a request of the iteration that follows a notification
\* request that resolved (or is that request, resolving).
AfterFetched ==
    \/ pc = "notifications" /\ ev'.op = "notifications" /\ ev'.outcome = "ok"
    \/ pc \in {"url", "latest_comment_url"} /\ ev'.op = pc

\* C10 — An iteration whose notification request resolved ends with exactly
\* one push, of a notifications.user.events message from "GithubWebhooks" with
\* the roomId of the iteration's stream, the lastReadTs set when the request
\* resolved, and the events, an empty events included; nothing is pushed at
\* any other point.
C10_OnePushPerFetch ==
    [][ /\ (AfterFetched /\ EndsIteration) =>
              /\ Len(ev'.push) = 1
              /\ ev'.push[1] =
                    [eventName |-> "notifications.user.events",
                     sender |-> "GithubWebhooks",
                     data |-> [roomId |-> stream.roomId,
                               lastReadTs |-> IF pc = "notifications" THEN now ELSE fetchedAt,
                               events |-> ev'.push[1].data.events]]
        /\ ev'.push # <<>> => AfterFetched /\ EndsIteration
      ]_vars

\* C10, its case: a response with no notification, and the batch pushed empty.
C10_Witness ==
    /\ ev.op = "notifications"
    /\ ev.outcome = "ok"
    /\ Len(ev.push) = 1
    /\ ev.push[1].data.events = <<>>

\* The number a decimal numeral stands for.
RECURSIVE Numeral(_)
Numeral(str) ==
    IF str = "" THEN 0
    ELSE 10 * Numeral(SubSeq(str, 1, Len(str) - 1))
           + (CHOOSE d \in 0..9 : DecimalDigits[d + 1] = SubSeq(str, Len(str), Len(str)))

\* The time an ISO 8601 timestamp of January 1970 denotes, in ms.
DateParse(iso) ==
    (Numeral(SubSeq(iso, 9, 10)) - 1) * 86400000
      + Numeral(SubSeq(iso, 12, 13)) * 3600000
      + Numeral(SubSeq(iso, 15, 16)) * 60000
      + Numeral(SubSeq(iso, 18, 19)) * 1000
      + Numeral(SubSeq(iso, 21, 23))

\* C11 — First poll: a user dequeued with lastReadTs 0 is requested at once,
\* with no interval wait, and its notification request has no since parameter;
\* a user dequeued with another lastReadTs is requested with a since parameter
\* that denotes exactly that lastReadTs.
C11_FirstPollSince ==
    /\ pc = "interval" => stream.lastReadTs # 0
    /\ \A r \in Polls :
          /\ pc = "notifications"
          /\ r.user = userId
          /\ stream.lastReadTs = 0 => r.since = <<>> /\ ev.op # "interval"
          /\ stream.lastReadTs # 0 =>
                /\ Len(r.since) = 1
                /\ Len(r.since[1]) = 24
                /\ DateParse(r.since[1]) = stream.lastReadTs

\* C11, its case: after the interval wait, a request with a since parameter
\* whose milliseconds are not zero.
C11_Witness ==
    /\ ev.op = "interval"
    /\ Polls # {}
    /\ stream.lastReadTs % 1000 # 0
    /\ \A r \in Polls : r.since = <<toISOString(stream.lastReadTs)>>

\* C11, its other case: a user never read, requested without a since parameter
\* in the step that dequeued it.
C11_WitnessFirst ==
    /\ Polls # {}
    /\ stream.lastReadTs = 0
    /\ \A r \in Polls : r.since = <<>>

\* C12 — Re-registration: addUser for a user that has a stream replaces the
\* stream's credentials, roomId and lastReadTs by the given ones and leaves
\* the queue exactly as it is; the registry holds one stream for the user, and
\* the other users' streams are as they were.
C12_ReRegistration ==
    [][ (ev'.op = "addUser" /\ ev'.user \in DOMAIN userStreams) =>
            LET u == ev'.user
                d == ev'.data[1]
            IN  /\ ev'.existing
                /\ userQueue' = userQueue
                /\ DOMAIN userStreams' = DOMAIN userStreams
                /\ userStreams'[u] = [octoKit |-> d.token, roomId |-> d.room_id,
                                      lastReadTs |-> d.since]
                /\ \A x \in DOMAIN userStreams \ {u} : userStreams'[x] = userStreams[x]
      ]_vars

\* C12, its case: with two users queued, the one that is not next has been
\* registered again, with the other token and room.
C12_Witness ==
    /\ ev.op = "addUser"
    /\ ev.existing
    /\ Len(userQueue) = 2
    /\ userQueue[1] = ev.user
    /\ userQueue[2] # ev.user
    /\ userStreams[ev.user].octoKit = "t2"
    /\ userStreams[ev.user].roomId = "r2"

\* Every call of fetchUserNotifications there is.
Frames == <<Frame>> \o others

\* The calls that are in the while loop.
Running == {i \in 1..Len(Frames) : Frames[i].pc \notin {"idle", "stopped"}}

\* C13 — Single worker: whatever start() calls were made, at most one polling
\* loop runs: at most one user is dequeued and not yet requeued, and at most
\* one request of the poller is in flight.
C13_SingleWorker ==
    /\ Cardinality(Running) <= 1
    /\ Cardinality({i \in 1..Len(Frames) : Frames[i].userId # NoUser}) <= 1
    /\ Cardinality({i \in 1..Len(Frames) :
                        Frames[i].pc \in {"notifications", "url", "latest_comment_url"}}) <= 1

\* C13, the state the code reaches after a second start(): two loops, each
\* with a notification request in flight, for two users.
C13_TwoFetches ==
    /\ Len(others) = 1
    /\ pc = "notifications"
    /\ others[1].pc = "notifications"
    /\ userId # others[1].userId

\* C14 — Shutdown: once stop() was called, a step that ends an iteration or
\* an empty-queue wait leaves the loop: no new iteration begins and no further
\* request is sent (the requests of the iteration in progress are let through).
C14_Shutdown ==
    [][ (closed /\ (EndsIteration \/ (pc = "empty" /\ ev'.op = "empty"))) =>
            /\ pc' = "stopped"
            /\ ev'.request = <<>>
      ]_vars

\* C14, the state the code reaches: after stop(), an iteration has ended and
\* the next one has sent its notification request.
C14_StillPolling ==
    /\ closed
    /\ shouldListen
    /\ ev.requeued # <<>>
    /\ Polls # {}

\* C15 — Timestamp advance: when a notification request for a registered user
\* resolves, the stream the registry holds for the user has its lastReadTs set
\* to the time of that step, also when addUser registered the user again while
\* the loop was suspended; and the lastReadTs of a batch that is pushed is the
\* one the registry holds for the user at that moment.
C15_TimestampAdvance ==
    /\ (ev.op = "notifications" /\ ev.outcome = "ok" /\ ev.user \in DOMAIN userStreams)
           => userStreams[ev.user].lastReadTs = now
    /\ \A m \in Range(ev.push) :
           ev.user \in DOMAIN userStreams
               => m.data.lastReadTs = userStreams[ev.user].lastReadTs

\* C15, the state the code reaches: a request resolved for a user that was
\* registered again during it; the batch carries the time of the step, the
\* registry still the since of the registration.
C15_StaleRegistry ==
    /\ ev.op = "notifications"
    /\ ev.outcome = "ok"
    /\ Len(ev.push) = 1
    /\ ev.user \in DOMAIN userStreams
    /\ ev.push[1].data.lastReadTs = now
    /\ userStreams[ev.user].lastReadTs < now

\* The rotation: the queue, and the user the loop has dequeued and not requeued.
Rotation == userQueue \o (IF userId # NoUser THEN <<userId>> ELSE <<>>)

\* The rotation holds the registered users, each once, and nobody else.
Mirror ==
    /\ Range(Rotation) = DOMAIN userStreams
    /\ Len(Rotation) = Cardinality(DOMAIN userStreams)

\* C16 — Eventual mirror: the addUser / removeUser calls being finitely many,
\* if the loop keeps polling then from some point on the rotation is a strict
\* mirror of the registry.
C16_EventualMirror == ([]<>(Polls # {})) => <>[]Mirror

\* C16, the part that holds: if the loop keeps polling, then from some point
\* on the rotation has no entry of a user without a stream.
C16_StaleEntriesGo == ([]<>(Polls # {})) => <>[](Range(Rotation) \subseteq DOMAIN userStreams)

\* C17 — Independent enrichment: when the subject.url request of a
\* notification that has a latest_comment_url throws, the latest_comment_url
\* request of that notification is sent all the same.
C17_IndependentEnrichment ==
    [][ (/\ pc = "url"
         /\ ev'.op = "url"
         /\ ev'.outcome = "threw"
         /\ response[idx].latest_comment_url) =>
            \E r \in Range(ev'.request) :
                r.kind = "latest_comment_url" /\ r.id = response[idx].id
      ]_vars

\* C17, the state the code reaches: a batch with a notification that has a
\* latest_comment_url whose request did not throw, and no data from it.
C17_CommentSkipped ==
    /\ Len(ev.push) = 1
    /\ \E k \in 1..Len(ev.returned) :
          /\ ev.returned[k].latest_comment_url
          /\ <<ev.returned[k].id, "url">> \in ev.threw
          /\ <<ev.returned[k].id, "latest_comment_url">> \notin ev.threw
          /\ ev.push[1].data.events[k].latest_comment_url_data = "unset"

\* How often u occurs in seq.
Occurrences(seq, u) == Cardinality({k \in 1..Len(seq) : seq[k] = u})

\* C18 — No duplicate queue entries: no user occurs twice in the rotation
\* (the queue and the user being processed), and the queue is never longer
\* than the number of users that were ever added.
C18_NoDuplicates ==
    /\ \A u \in Users : Occurrences(Rotation, u) <= 1
    /\ Len(userQueue) <= Len(arrivals)

\* C18, the state the code reaches: a registered user is queued while the loop
\* is processing that same user.
C18_QueuedWhileProcessed ==
    /\ InIteration
    /\ userId \in DOMAIN userStreams
    /\ userId \in Range(userQueue)

\* C19 — No registered user is lost from the rotation: every user that has a
\* stream is in the queue or is the user a loop has dequeued and is going to
\* requeue.
C19_NoUserLost ==
    \A u \in DOMAIN userStreams :
        \/ u \in Range(userQueue)
        \/ \E i \in 1..Len(Frames) :
              /\ Frames[i].pc \in {"interval", "notifications", "url", "latest_comment_url"}
              /\ Frames[i].userId = u

\* C19, its case: the loop has requeued a polled user and dropped a removed
\* user's entry, and is processing a registered user that is not in the queue.
C19_Witness ==
    /\ ev.dropped # <<>>
    /\ ev.requeued # <<>>
    /\ InIteration
    /\ userId \in DOMAIN userStreams
    /\ userId \notin Range(userQueue)

\* C20 — Removal takes effect at once for the loop: for a user that has no
\* stream (removed and not added again), no step sends a notification or
\* enrichment request, pushes a batch, or puts the user back on the queue,
\* also when removeUser came while the loop was suspended in that user's
\* interval wait or in one of its requests.
C20_RemovalAtOnce ==
    [][ \A u \in Users \ DOMAIN userStreams' :
            /\ \A r \in Range(ev'.request) : r.user # u
            /\ u \notin Range(ev'.requeued)
            /\ ev'.push # <<>> => ev'.user # u
      ]_vars

\* C20, the state the code reaches: the interval wait of a user that was
\* removed during it has ended, and the notification request was sent.
C20_PolledAfterRemoval ==
    /\ ev.op = "interval"
    /\ ev.user \notin DOMAIN userStreams
    /\ \E r \in Polls : r.user = ev.user

\* C20, the other state the code reaches: a batch was pushed for a user that
\* was removed during the request, and the user was put back on the queue.
C20_PublishedAfterRemoval ==
    /\ ev.push # <<>>
    /\ ev.user \notin DOMAIN userStreams
    /\ ev.requeued = <<ev.user>>

====
